---- MODULE Spec2Model ----
(***************************************************************************)
(* Word-Ladder: Graph (src/Graph.py) and LadderGraph (src/LadderGraph.py). *)
(*                                                                         *)
(* A vertex identifier is a Python str, modelled as a sequence of          *)
(* characters, so that str.lower() and zip() act on it as in the code.     *)
(* A Python "for x in some_set" visits the elements in an order the        *)
(* language does not fix: each loop step picks any element not yet         *)
(* visited.                                                                *)
(***************************************************************************)
EXTENDS Integers, Sequences, FiniteSets, TLC

VARIABLES
    cls,            \* class of the constructed object: Graph or LadderGraph
    adjacency_list, \* Graph.__adjacency_list: key -> set of neighbours
    pc,             \* position of the running query
    op,             \* the query that was called
    start,          \* argument start / source
    target,         \* argument target
    max_rungs,      \* argument max_rungs of get_all_ladders
    arg,            \* argument path / ladder of the validity checks
    path_queue,     \* local path_queue of the two BFS searches
    old_path,       \* local old_path / current_path (the dequeued path)
    todo,           \* neighbours the running for loop has not visited yet
    new_path,       \* local new_path (Unbound until first assigned)
    paths,          \* local paths of get_all_shortest_bfs_paths
    min_length,     \* local min_length of get_all_shortest_bfs_paths
    stack,          \* the active calls of find_ladders, innermost last
    ladders,        \* local ladders of get_all_ladders
    expansions,     \* history: paths dequeued / find_ladders calls of the query
    result,         \* the value returned by the query
    length          \* what get_shortest_bfs_path_length / get_rung_length returns

vars == <<cls, adjacency_list, pc, op, start, target, max_rungs, arg,
          path_queue, old_path, todo, new_path, paths, min_length, stack,
          ladders, expansions, result, length>>

obj == <<cls, adjacency_list>>
call == <<op, start, target, max_rungs, arg>>
bfs == <<path_queue, old_path, todo, new_path, paths, min_length>>
dfs == <<stack, ladders>>
out == <<result, length>>

\* ------------------------------------------------------------------ bounds
\* total number of neighbour entries in an adjacency map given to Graph()
MaxEdges == 4
\* number of words in a word list given to LadderGraph()
MaxWords == 4
\* length of a path / ladder given to is_valid_path / is_valid_ladder
MaxPathLen == 3
\* largest finite max_rungs given to get_all_ladders
MaxRungs == 3

\* ------------------------------------------------------------- universes
\* vertex identifiers of a plain Graph
Ids == {<<"A">>, <<"B">>, <<"C">>, <<"D">>}

\* words: lower and mixed case, and one of another length
Words == {<<"a", "a">>, <<"a", "b">>, <<"b", "a">>, <<"b", "b">>,
          <<"A", "b">>, <<"a">>}

\* float('inf') / math.inf: larger than every length
inf == 1000000

\* a local variable that has not been assigned (a bound new_path is not empty)
Unbound == <<>>

Last(s) == s[Len(s)]
Range(s) == {s[i] : i \in DOMAIN s}
Min(a, b) == IF a <= b THEN a ELSE b

\* the tuples over S with at most n elements
TuplesUpTo(S, n) == UNION {[1..k -> S] : k \in 0..n}

RECURSIVE NumEntries(_, _)
NumEntries(adj, keys) ==
    IF keys = {} THEN 0
    ELSE LET k == CHOOSE x \in keys : TRUE
         IN Cardinality(adj[k]) + NumEntries(adj, keys \ {k})

\* the adjacency maps the constructor is given: any keys, any neighbour sets
\* (self-loops, one-way entries and neighbours that are not keys included)
AdjacencyMaps ==
    {adj \in UNION {[ks -> SUBSET Ids] : ks \in SUBSET Ids} :
        NumEntries(adj, DOMAIN adj) <= MaxEdges}

\* the word lists the LadderGraph constructor is given (the order and the
\* repetitions of a list do not reach the adjacency list it builds)
WordLists == {wl \in SUBSET Words : Cardinality(wl) <= MaxWords}

\* the values of max_rungs: negative, zero, positive and the default math.inf
RungBounds == (-1..MaxRungs) \cup {inf}

\* ------------------------------------------------------------------ Graph
vertices == DOMAIN adjacency_list

is_vertex(vertex) == vertex \in vertices

get_neighbors(vertex) ==
    IF vertex \notin vertices THEN {}
    ELSE adjacency_list[vertex]

is_valid_path(path) ==
    \A i \in 1..(Len(path) - 1) : path[i] \in DOMAIN adjacency_list

\* get_shortest_bfs_path_length, applied to what get_shortest_bfs_path returned
get_shortest_bfs_path_length(shortest_path) ==
    IF shortest_path # <<>> THEN Len(shortest_path) - 1 ELSE 0

\* path_queue.pop() would take the newest path
PopNewest(queue) ==
    [path |-> queue[Len(queue)], rest |-> SubSeq(queue, 1, Len(queue) - 1)]

\* path_queue.pop(0) takes the oldest path and leaves the others
Pop0(queue) == [path |-> Head(queue), rest |-> Tail(queue)]

\* a search that never tests "not in" extends a path with any neighbour
NotInUntested(neighbour, path) == TRUE

\* "neighbour not in old_path", "neighbor not in current_path", "not in path"
NotIn(neighbour, path) == neighbour \notin Range(path)

\* "len(new_path) < min_length" would keep the first shortest path only
BelowMin(n, min) == n < min

\* "len(new_path) <= min_length"
WithinMin(n, min) == n <= min

\* the final comprehension of get_all_shortest_bfs_paths
OfMinLength(ps, min) == {path \in ps : Len(path) = min}

\* ------------------------------------------------------------ LadderGraph
LowerChar(c) == IF c = "A" THEN "a" ELSE IF c = "B" THEN "b" ELSE c

\* str.lower()
lower(word) == [i \in DOMAIN word |-> LowerChar(word[i])]

\* zip(w1, w2) stops at the shorter word
hamming_distance(w1, w2) ==
    Cardinality({i \in 1..Min(Len(w1), Len(w2)) : w1[i] # w2[i]})

build_adj_list(word_list) ==
    [word \in {lower(w) : w \in word_list} |->
        {other_word \in {lower(w) : w \in word_list} :
            word # other_word /\ hamming_distance(word, other_word) = 1}]

is_valid_word(word) == lower(word) \in vertices

is_valid_ladder(ladder) ==
    IF Len(ladder) < 2 THEN FALSE
    ELSE \A i \in 1..(Len(ladder) - 1) :
            hamming_distance(lower(ladder[i]), lower(ladder[i + 1])) = 1

get_rung_length(ladder) ==
    IF ~is_valid_ladder(ladder) THEN -1 ELSE Len(ladder) - 2

\* "len(path) > max_rungs + 2" would let a ladder have max_rungs rungs
TooLongByRungs(path, rungs) == rungs # inf /\ Len(path) > rungs + 2

\* "len(path) > max_rungs + 1"
TooLong(path, rungs) == rungs # inf /\ Len(path) > rungs + 1

\* the guard of get_all_ladders
BothKnown(s, t) == lower(s) \in vertices /\ lower(t) \in vertices

\* ------------------------------------------------------------ construction
NoQuery ==
    /\ pc = "idle"
    /\ op = "none"
    /\ start = <<>>
    /\ target = <<>>
    /\ max_rungs = inf
    /\ arg = <<>>
    /\ path_queue = <<>>
    /\ old_path = <<>>
    /\ todo = {}
    /\ new_path = Unbound
    /\ paths = {}
    /\ min_length = inf
    /\ stack = <<>>
    /\ ladders = {}
    /\ expansions = 0
    /\ result = <<>>
    /\ length = 0

\* Graph(adjacency_list)
GraphInit ==
    /\ cls = "Graph"
    /\ adjacency_list \in AdjacencyMaps
    /\ NoQuery

\* LadderGraph(word_list)
LadderInit ==
    /\ cls = "LadderGraph"
    /\ adjacency_list \in {build_adj_list(wl) : wl \in WordLists}
    /\ NoQuery

Init == GraphInit \/ LadderInit

\* ---------------------------------------------------------- is_valid_path
IsValidPath ==
    /\ pc = "idle"
    /\ cls = "Graph"
    /\ \E path \in TuplesUpTo(Ids, MaxPathLen) :
        /\ arg' = path
        /\ result' = is_valid_path(path)
    /\ op' = "is_valid_path"
    /\ pc' = "done"
    /\ UNCHANGED <<obj, expansions, start, target, max_rungs, bfs, dfs, length>>

\* ------------------------------------------------ get_shortest_bfs_path
CallShortestFrom(starts) ==
    /\ pc = "idle"
    /\ cls = "Graph"
    /\ \E s \in starts, t \in Ids :
        /\ start' = s
        /\ target' = t
        /\ path_queue' = <<<<s>>>>
    /\ op' = "get_shortest_bfs_path"
    /\ pc' = "while"
    /\ expansions' = 0
    /\ UNCHANGED <<obj, max_rungs, arg, old_path, todo, new_path, paths,
                   min_length, dfs, out>>

\* get_shortest_bfs_path(start, target), for every start and target
CallShortest == CallShortestFrom(Ids)

\* while path_queue: old_path = path_queue.pop(0); last_node = old_path[-1]
ShortestWhile ==
    /\ pc = "while"
    /\ op = "get_shortest_bfs_path"
    /\ path_queue # <<>>
    /\ old_path' = Pop0(path_queue).path
    /\ path_queue' = Pop0(path_queue).rest
    /\ todo' = get_neighbors(Last(Pop0(path_queue).path))
    /\ pc' = "for"
    /\ expansions' = expansions + 1
    /\ UNCHANGED <<obj, call, new_path, paths, min_length, dfs, out>>

\* the queue ran empty: return tuple()
ShortestExhausted ==
    /\ pc = "while"
    /\ op = "get_shortest_bfs_path"
    /\ path_queue = <<>>
    /\ result' = <<>>
    /\ length' = get_shortest_bfs_path_length(<<>>)
    /\ pc' = "done"
    /\ UNCHANGED <<obj, expansions, call, bfs, dfs>>

\* one pass of "for neighbour in self.get_neighbors(last_node)": the append
\* is under "if neighbour not in old_path", the return is not
ShortestFor ==
    /\ pc = "for"
    /\ op = "get_shortest_bfs_path"
    /\ \E neighbour \in todo :
        LET fresh == NotIn(neighbour, old_path)
            np == IF fresh THEN Append(old_path, neighbour) ELSE new_path
        IN /\ new_path' = np
           /\ path_queue' = IF fresh THEN Append(path_queue, np) ELSE path_queue
           /\ IF neighbour = target
              THEN IF np = Unbound
                   THEN \* new_path is read before any assignment:
                        \* UnboundLocalError leaves the query
                        /\ pc' = "raised"
                        /\ UNCHANGED <<out, todo>>
                   ELSE /\ result' = np
                        /\ length' = get_shortest_bfs_path_length(np)
                        /\ pc' = "done"
                        /\ UNCHANGED todo
              ELSE /\ todo' = todo \ {neighbour}
                   /\ UNCHANGED <<pc, out>>
    /\ UNCHANGED <<obj, expansions, call, old_path, paths, min_length, dfs>>

\* the for loop is over: back to the while test
ShortestForEnd ==
    /\ pc = "for"
    /\ op = "get_shortest_bfs_path"
    /\ todo = {}
    /\ pc' = "while"
    /\ UNCHANGED <<obj, expansions, call, bfs, dfs, out>>

\* -------------------------------------------- get_all_shortest_bfs_paths
CallAllShortestFrom(starts) ==
    /\ pc = "idle"
    /\ cls = "Graph"
    /\ \E s \in starts, t \in Ids :
        /\ start' = s
        /\ target' = t
        /\ path_queue' = <<<<s>>>>
    /\ paths' = {}
    /\ min_length' = inf
    /\ op' = "get_all_shortest_bfs_paths"
    /\ pc' = "while"
    /\ expansions' = 0
    /\ UNCHANGED <<obj, max_rungs, arg, old_path, todo, new_path, dfs, out>>

\* get_all_shortest_bfs_paths(source, target), for every source and target
CallAllShortest == CallAllShortestFrom(Ids)

\* while path_queue: current_path = path_queue.pop(0)
AllShortestWhile ==
    /\ pc = "while"
    /\ op = "get_all_shortest_bfs_paths"
    /\ path_queue # <<>>
    /\ old_path' = Pop0(path_queue).path
    /\ path_queue' = Pop0(path_queue).rest
    /\ todo' = get_neighbors(Last(Pop0(path_queue).path))
    /\ pc' = "for"
    /\ expansions' = expansions + 1
    /\ UNCHANGED <<obj, call, new_path, paths, min_length, dfs, out>>

\* one pass of "for neighbor in self.get_neighbors(last_node)"
AllShortestFor ==
    /\ pc = "for"
    /\ op = "get_all_shortest_bfs_paths"
    /\ \E neighbor \in todo :
        LET np == Append(old_path, neighbor)
        IN /\ todo' = todo \ {neighbor}
           /\ IF NotIn(neighbor, old_path)
              THEN /\ new_path' = np
                   /\ IF neighbor = target
                      THEN /\ IF WithinMin(Len(np), min_length)
                              THEN /\ min_length' = Len(np)
                                   /\ paths' = paths \cup {np}
                              ELSE UNCHANGED <<min_length, paths>>
                           /\ UNCHANGED path_queue
                      ELSE /\ path_queue' = Append(path_queue, np)
                           /\ UNCHANGED <<min_length, paths>>
              ELSE UNCHANGED <<new_path, min_length, paths, path_queue>>
    /\ UNCHANGED <<obj, expansions, call, pc, old_path, dfs, out>>

AllShortestForEnd ==
    /\ pc = "for"
    /\ op = "get_all_shortest_bfs_paths"
    /\ todo = {}
    /\ pc' = "while"
    /\ UNCHANGED <<obj, expansions, call, bfs, dfs, out>>

\* return {path for path in paths if len(path) == min_length}
AllShortestReturn ==
    /\ pc = "while"
    /\ op = "get_all_shortest_bfs_paths"
    /\ path_queue = <<>>
    /\ result' = OfMinLength(paths, min_length)
    /\ pc' = "done"
    /\ UNCHANGED <<obj, expansions, call, bfs, dfs, length>>

\* ------------------------------------- is_valid_ladder, get_rung_length
IsValidLadder ==
    /\ pc = "idle"
    /\ cls = "LadderGraph"
    /\ \E ladder \in TuplesUpTo(Words, MaxPathLen) :
        /\ arg' = ladder
        /\ result' = is_valid_ladder(ladder)
        /\ length' = get_rung_length(ladder)
    /\ op' = "is_valid_ladder"
    /\ pc' = "done"
    /\ UNCHANGED <<obj, expansions, start, target, max_rungs, bfs, dfs>>

\* -------------------------------------------------------- get_all_ladders
\* a call of find_ladders(current_word, path): current_word is path[-1]
Frame(path) == [path |-> path, todo |-> {}, at |-> "enter"]
Top == stack[Len(stack)]
Pop == SubSeq(stack, 1, Len(stack) - 1)

CallAllLadders ==
    /\ pc = "idle"
    /\ cls = "LadderGraph"
    /\ \E s \in Words, t \in Words, r \in RungBounds :
        /\ start' = s
        /\ target' = t
        /\ max_rungs' = r
        /\ IF BothKnown(s, t)
           THEN /\ stack' = <<Frame(<<lower(s)>>)>>
                /\ pc' = "find_ladders"
                /\ UNCHANGED result
           ELSE /\ result' = {}
                /\ pc' = "done"
                /\ UNCHANGED stack
    /\ ladders' = {}
    /\ op' = "get_all_ladders"
    /\ expansions' = 0
    /\ UNCHANGED <<obj, arg, bfs, length>>

\* the head of find_ladders: the two tests before the loop
FindLaddersEnter ==
    /\ pc = "find_ladders"
    /\ stack # <<>>
    /\ Top.at = "enter"
    /\ IF TooLong(Top.path, max_rungs)
       THEN /\ stack' = Pop
            /\ UNCHANGED ladders
       ELSE IF Last(Top.path) = lower(target)
       THEN /\ ladders' = ladders \cup {Top.path}
            /\ stack' = Pop
       ELSE /\ stack' = [stack EXCEPT ![Len(stack)] =
                            [path |-> Top.path,
                             todo |-> get_neighbors(Last(Top.path)),
                             at |-> "for"]]
            /\ UNCHANGED ladders
    /\ expansions' = expansions + 1
    /\ UNCHANGED <<obj, call, pc, bfs, out>>

\* one pass of "for neighbor in self.get_neighbors(current_word)"
FindLaddersFor ==
    /\ pc = "find_ladders"
    /\ stack # <<>>
    /\ Top.at = "for"
    /\ \E neighbor \in Top.todo :
        LET rest == [stack EXCEPT ![Len(stack)].todo = Top.todo \ {neighbor}]
        IN stack' = IF NotIn(neighbor, Top.path)
                    THEN Append(rest, Frame(Append(Top.path, neighbor)))
                    ELSE rest
    /\ UNCHANGED <<obj, expansions, call, pc, bfs, ladders, out>>

\* the loop of a call is over: it returns to its caller
FindLaddersReturn ==
    /\ pc = "find_ladders"
    /\ stack # <<>>
    /\ Top.at = "for"
    /\ Top.todo = {}
    /\ stack' = Pop
    /\ UNCHANGED <<obj, expansions, call, pc, bfs, ladders, out>>

\* the outermost call has returned: return ladders
AllLaddersReturn ==
    /\ pc = "find_ladders"
    /\ stack = <<>>
    /\ result' = ladders
    /\ pc' = "done"
    /\ UNCHANGED <<obj, expansions, call, bfs, dfs, length>>

\* ---------------------------------------------------------- specifications
GraphNext ==
    \/ CallShortest
    \/ ShortestWhile
    \/ ShortestExhausted
    \/ ShortestFor
    \/ ShortestForEnd
    \/ CallAllShortest
    \/ AllShortestWhile
    \/ AllShortestFor
    \/ AllShortestForEnd
    \/ AllShortestReturn

LadderNext ==
    \/ IsValidLadder
    \/ CallAllLadders
    \/ FindLaddersEnter
    \/ FindLaddersFor
    \/ FindLaddersReturn
    \/ AllLaddersReturn

\* AdjacencyMaps is closed under renaming the identifiers and no query looks
\* inside one, so every BFS query is a renaming of one that starts at FirstId
FirstId == {<<"A">>}
CallShortestFirst == CallShortestFrom(FirstId)
CallAllShortestFirst == CallAllShortestFrom(FirstId)

\* the three searches
SearchNext ==
    \/ CallShortestFirst
    \/ ShortestWhile
    \/ ShortestExhausted
    \/ ShortestFor
    \/ ShortestForEnd
    \/ CallAllShortestFirst
    \/ AllShortestWhile
    \/ AllShortestFor
    \/ AllShortestForEnd
    \/ AllShortestReturn
    \/ CallAllLadders
    \/ FindLaddersEnter
    \/ FindLaddersFor
    \/ FindLaddersReturn
    \/ AllLaddersReturn

\* the BFS queries of a Graph
Spec == GraphInit /\ [][GraphNext]_vars

\* is_valid_path of a Graph
SpecPath == GraphInit /\ [][IsValidPath]_vars

\* the queries of a LadderGraph
SpecLadder == LadderInit /\ [][LadderNext]_vars

\* the searches run to their end: the interpreter keeps executing a query
\* that has a next statement
FairSpec == Init /\ [][SearchNext]_vars /\ WF_vars(SearchNext)

\* ------------------------------------------------------------ reference
\* what the claims speak of, stated over get_neighbors

\* every identifier the adjacency list names, as a key or as a neighbour
Nodes == vertices \cup UNION {adjacency_list[k] : k \in vertices}

\* the sequences of k edges from s in which every element after the first is
\* in get_neighbors of the element before it (none leaves an s that is not
\* on the graph)
RECURSIVE WalksFrom(_, _)
WalksFrom(s, k) ==
    IF k = 0 THEN (IF is_vertex(s) THEN {<<s>>} ELSE {})
    ELSE UNION {{Append(w, n) : n \in get_neighbors(Last(w))} :
                    w \in WalksFrom(s, k - 1)}

\* the edge counts of the sequences from s to t (one of at most
\* Cardinality(Nodes) edges exists whenever any exists)
EdgeCounts(s, t) ==
    {k \in 0..Cardinality(Nodes) : \E w \in WalksFrom(s, k) : Last(w) = t}

Connected(s, t) == EdgeCounts(s, t) # {}

MinEdges(s, t) == CHOOSE k \in EdgeCounts(s, t) : \A j \in EdgeCounts(s, t) : k <= j

\* the sequences from s to t of the fewest edges
MinWalks(s, t) ==
    IF Connected(s, t)
    THEN {w \in WalksFrom(s, MinEdges(s, t)) : Last(w) = t}
    ELSE {}

\* the paths of n vertices from s that repeat no vertex
RECURSIVE SimpleFrom(_, _)
SimpleFrom(s, n) ==
    IF n = 1 THEN {<<s>>}
    ELSE UNION {{Append(w, v) : v \in get_neighbors(Last(w)) \ Range(w)} :
                    w \in SimpleFrom(s, n - 1)}

\* the simple paths from s of at most n vertices
SimpleUpTo(s, n) == UNION {SimpleFrom(s, k) : k \in 1..n}

\* the simple paths from s: none has more vertices than s and Nodes together
SimplePathsFrom(s) == SimpleUpTo(s, Cardinality(Nodes) + 1)

\* the simple paths from s to t of at most rungs + 1 vertices
SimplePaths(s, t, rungs) ==
    {p \in (IF rungs = inf THEN SimplePathsFrom(s)
            ELSE SimpleUpTo(s, Min(rungs + 1, Cardinality(Nodes) + 1))) :
        Last(p) = t}

NoRepeat(p) == \A i, j \in DOMAIN p : p[i] = p[j] => i = j

Returned(name) == pc = "done" /\ op = name
Ended(name) == pc \in {"done", "raised"} /\ op = name

\* --------------------------------------------------------------- claims

\* C1: for start # target, get_shortest_bfs_path returns (never raises) a tuple
\* from start to target in which every element after the first is in
\* get_neighbors of the one before it, with the fewest edges of all such
\* sequences; it returns the empty tuple exactly when there is none; and
\* get_shortest_bfs_path_length is the tuple's length minus 1, or 0 when empty.
C1_ShortestPath ==
    (Ended("get_shortest_bfs_path") /\ start # target) =>
        /\ pc = "done"
        /\ IF Connected(start, target)
           THEN result \in MinWalks(start, target)
           ELSE result = <<>>
        /\ length = (IF result = <<>> THEN 0 ELSE Len(result) - 1)

\* C1 witness: a shortest path of two edges was returned although a longer
\* sequence to the target exists as well
C1_Witness ==
    /\ Returned("get_shortest_bfs_path")
    /\ start # target
    /\ Len(result) = 3
    /\ length = 2
    /\ 3 \in EdgeCounts(start, target)

\* C2 as claimed: for every source and target, get_all_shortest_bfs_paths
\* returns exactly the set of the minimum-edge-count paths from source to target
C2_AsClaimed ==
    Returned("get_all_shortest_bfs_paths") => result = MinWalks(start, target)

\* C2 amended: for source # target, get_all_shortest_bfs_paths returns exactly
\* the minimum-edge-count paths from source to target, each of MinEdges edges
\* (which by C1 is what get_shortest_bfs_path_length returns); for
\* source = target it returns the empty set.
C2_AllShortestPaths ==
    Returned("get_all_shortest_bfs_paths") =>
        IF start # target
        THEN /\ result = MinWalks(start, target)
             /\ \A p \in result : Len(p) - 1 = MinEdges(start, target)
        ELSE result = {}

\* C2 witness: two different shortest paths were returned
C2_Witness ==
    /\ Returned("get_all_shortest_bfs_paths")
    /\ start # target
    /\ Cardinality(result) = 2
    /\ \A p \in result : Len(p) = 3

C4_SelfQueryEmpty ==
    (Returned("get_shortest_bfs_path") /\ start = target) =>
        result = <<>> /\ length = 0

\* C5: when start or target is not in the vertex set, get_shortest_bfs_path
\* returns the empty tuple, get_shortest_bfs_path_length 0 and
\* get_all_shortest_bfs_paths the empty set.
C5_AbsentVertexEmpty ==
    /\ (Ended("get_shortest_bfs_path") /\ ~(is_vertex(start) /\ is_vertex(target)))
          => (pc = "done" /\ result = <<>> /\ length = 0)
    /\ (Ended("get_all_shortest_bfs_paths") /\ ~(is_vertex(start) /\ is_vertex(target)))
          => (pc = "done" /\ result = {})

\* C6: no BFS query ends by raising.
C6_NeverRaises == pc # "raised"

\* a ladder that is a path on the graph (case-folded as the code folds it)
IsLadderOnGraph(ladder) ==
    /\ Len(ladder) >= 2
    /\ \A i \in DOMAIN ladder : is_valid_word(ladder[i])
    /\ \A i \in 1..(Len(ladder) - 1) :
          lower(ladder[i + 1]) \in get_neighbors(lower(ladder[i]))

\* C7: is_valid_ladder returns True only for a path on the graph; for a
\* ladder with a word absent from the word list it returns False and
\* get_rung_length returns -1.
C7_ValidLadderOnGraph ==
    Returned("is_valid_ladder") =>
        /\ result => IsLadderOnGraph(arg)
        /\ (\E i \in DOMAIN arg : ~is_valid_word(arg[i])) =>
              (result = FALSE /\ length = -1)

\* different vertices u, v that no entry of the adjacency map joins
NotJoined(u, v) ==
    u # v /\ v \notin get_neighbors(u) /\ u \notin get_neighbors(v)

\* C8: is_valid_path returns False for a path in which some consecutive pair
\* is not joined in the adjacency map, even when every vertex is a key.
C8_ValidPathChecksEdges ==
    (/\ Returned("is_valid_path")
     /\ \A i \in DOMAIN arg : is_vertex(arg[i])
     /\ \E j \in 1..(Len(arg) - 1) : NotJoined(arg[j], arg[j + 1]))
    => result = FALSE

\* every path a search holds: queued, dequeued, or passed to find_ladders
HeldPaths ==
    Range(path_queue) \cup {old_path} \cup {stack[i].path : i \in DOMAIN stack}

Halted == pc \in {"done", "raised"}

\* the paths held repeat no vertex, and the expansions so far are no more
\* than the simple paths from start
BoundedSearch ==
    /\ \A p \in HeldPaths : NoRepeat(p)
    /\ pc # "idle" =>
          expansions <= Cardinality(SimplePathsFrom(
                            IF op = "get_all_ladders" THEN lower(start) ELSE start))

\* C9: every search halts: the paths it holds repeat no vertex, the number of
\* expansions is bounded by the number of simple paths from start, and the
\* query eventually ends.
C9_SearchesHalt == []BoundedSearch /\ <>Halted

\* C9 witness: a search on a graph with a cycle through start has ended
C9_Witness ==
    /\ Halted
    /\ expansions >= 3
    /\ \E k \in 2..Cardinality(Nodes) : \E w \in WalksFrom(start, k) : Last(w) = start

\* C10: every tuple get_all_ladders returns begins with start, ends with target
\* (case-folded as the code folds them), is a valid ladder by is_valid_ladder
\* and has a get_rung_length between 0 and max_rungs.
C10_LaddersAreValid ==
    Returned("get_all_ladders") =>
        \A l \in result :
            /\ l[1] = lower(start)
            /\ Last(l) = lower(target)
            /\ is_valid_ladder(l)
            /\ get_rung_length(l) >= 0
            /\ (max_rungs # inf => get_rung_length(l) <= max_rungs)
====
